---- MODULE Spec2Model ----
(***************************************************************************)
(* FragmentEngine scraper (scraper/scraper.js): the crawl driver run(),    *)
(* the page task crawl() under the p-limit pool, indexFragments(),         *)
(* pruneStaleDocs() and indexPages(), against a Typesense store.           *)
(***************************************************************************)
EXTENDS Integers, Sequences, FiniteSets, TLC

(***************************************************************************)
(* Bounds of the model.                                                    *)
(***************************************************************************)
\* CONCURRENCY is read from the environment; every limit 1..MaxConcurrency is explored
MaxConcurrency == 2
\* how many I/O operations of the crawl and of the store (tab open, navigation,
\* link read, tab close, a document write, a delete) may fail in one run
MaxFaults == 1
\* the clock of the version specification runs to MaxClock ms in steps of ClockStep,
\* and at most MaxRuns runs are started
MaxClock == 3000
ClockStep == 500
MaxRuns == 3

(***************************************************************************)
(* Program constants.                                                      *)
(***************************************************************************)
\* crawl(..., retries = 3)
Retries == 3
\* if (this.requestCount % 10 === 0)
ThrottleEvery == 10
\* for (let i = 0; i < this.fragments.length; i += 100)
BatchSize == 100
\* CRAWL_VERSION of the run under study, and of the run that filled the store before
CRAWL_VERSION == 2
\* Math.floor(Date.now() / 1000)
MsPerSecond == 1000
PrevVersion == CRAWL_VERSION - 1

(***************************************************************************)
(* URLs.  A URL is a record; its text is the sequence of its tokens.       *)
(***************************************************************************)
HostA == <<"my", "gov", "au">>
HostB == <<"login", "my", "gov", "au">>
HostC == <<"www", "servicesaustralia", "gov", "au">>

NoUrl == [host |-> <<>>, path |-> "", query |-> "", hash |-> ""]

U(h, p) == [host |-> h, path |-> p, query |-> "", hash |-> ""]
A(p) == U(HostA, p)

\* new URL(u).hostname
hostname(u) == u.host

\* new URL(u).origin (every URL of the model is https)
origin(u) == <<"https:">> \o u.host

\* function baseUrl(url): hash and search stripped
baseUrl(u) == [u EXCEPT !.query = "", !.hash = ""]

\* the text of a canonical URL, token by token
UrlText(u) == <<"https:">> \o u.host \o <<u.path>>

\* s contains t as a contiguous run of tokens
Contains(s, t) ==
  \E i \in 1..(Len(s) - Len(t) + 1) : SubSeq(s, i, i + Len(t) - 1) = t

(***************************************************************************)
(* The crawled site and the run's configuration (config/scraper-config.js  *)
(* and the target site are inputs of the run).  Three are explored: a     *)
(* small tree with a sitemap and flaky pages, a wide page whose link list  *)
(* names one URL twice, and a single page whose URL has no host name.      *)
(***************************************************************************)
\* the anchor texts of the site's links, word by word
TwoHits == <<"Apply", "for", "services">>
OneHit == <<"Helpful", "help">>
NoHit == <<"About", "us">>

\* (linkText || '').toLowerCase(), word by word
lowerCase(w) ==
  CASE w = "Apply" -> "apply" [] w = "Helpful" -> "helpful" [] w = "About" -> "about"
    [] OTHER -> w

\* text.includes(k), for a text of one word
includes(w, k) ==
  w = k \/ <<w, k>> \in {<<"services", "service">>, <<"helpful", "help">>}

keywords ==
  {"service", "eligibility", "apply", "benefit", "support", "help", "information"}

\* the number of keywords the lower-cased anchor text contains
scoreLinkRelevance(linkText) ==
  Cardinality({k \in keywords :
                 \E i \in 1..Len(linkText) : includes(lowerCase(linkText[i]), k)})

\* a link as page.evaluate returns it, with the score the sort gives it
L(u, text) == [href |-> u, text |-> text, score |-> scoreLinkRelevance(text)]

\* the links of the pages of the tree site, in document order
TreeRootLinks ==
  <<L(A("/form.pdf"), TwoHits), L(U(HostC, "/"), TwoHits),
    L([A("/") EXCEPT !.hash = "top"], TwoHits), L(A("/login"), TwoHits),
    L(A("/c2"), NoHit), L(A("/c1"), OneHit), L(A("/c3"), NoHit)>>
TreeM1Links == <<L(A("/c1"), NoHit), L(A("/private"), NoHit)>>
TreeC1Links == <<L(A("/c2"), NoHit)>>
TreeC2Links == <<L(A("/e1"), NoHit)>>

TreeLinks(p) ==
  CASE p = "/"   -> TreeRootLinks
    [] p = "/m1" -> TreeM1Links
    [] p = "/c1" -> TreeC1Links
    [] p = "/c2" -> TreeC2Links
    [] OTHER     -> <<>>

\* the links of the start page of the wide site
WideRootLinks ==
  <<L(A("/l1"), NoHit), L(A("/l2"), NoHit), L(A("/l3"), NoHit), L(A("/l4"), NoHit),
    L(A("/l5"), NoHit), L(A("/l6"), NoHit), L(A("/l7"), NoHit), L(A("/l8"), NoHit),
    L(A("/l9"), NoHit), L(A("/l9"), NoHit)>>

WideLinks(p) ==
  CASE p = "/" -> WideRootLinks
    [] OTHER   -> <<>>

\* the DOM of a page: its headings (text, content span) and its standalone elements
Dom(p) ==
  CASE p = "/"   -> [headings |-> <<[text |-> "Home", content |-> "welcome"]>>,
                     standalone |-> <<"alert">>]
    [] p = "/c1" -> [headings |-> <<[text |-> "Carers", content |-> "payment"]>>,
                     standalone |-> <<>>]
    [] p = "/e1" -> [headings |-> <<[text |-> "Eligibility", content |-> "rules"],
                                    [text |-> "How to apply", content |-> "steps"]>>,
                     standalone |-> <<>>]
    [] p = "/l9" -> [headings |-> <<[text |-> "Support", content |-> "contact"]>>,
                     standalone |-> <<>>]
    [] OTHER     -> [headings |-> <<>>, standalone |-> <<>>]

Tree == [name |-> "tree", start |-> A("/"), sitemap |-> <<A("/m1")>>,
         disallow |-> {A("/private")}, exclude |-> {"/login"}, flaky |-> {"/", "/m1"},
         maxDepth |-> 2, maxLinksPerPage |-> 2, maxPages |-> 4]

Wide == [name |-> "wide", start |-> A("/"), sitemap |-> <<>>,
         disallow |-> {}, exclude |-> {}, flaky |-> {},
         maxDepth |-> 1, maxLinksPerPage |-> 10, maxPages |-> 20]

\* a start URL that parses and has an empty hostname (TARGET_URL is a file: URL
\* of a saved page): one page, no sitemap, no links followed
Local == [name |-> "local", start |-> U(<<>>, "/"), sitemap |-> <<>>,
          disallow |-> {}, exclude |-> {}, flaky |-> {},
          maxDepth |-> 0, maxLinksPerPage |-> 2, maxPages |-> 4]

Scenarios == {Tree, Wide, Local}

LinksOf(sc, u) ==
  CASE sc.name = "tree" -> TreeLinks(u.path)
    [] sc.name = "wide" -> WideLinks(u.path)
    [] OTHER            -> <<>>

(***************************************************************************)
(* Fragments.                                                              *)
(***************************************************************************)
\* crypto.createHash('md5').update(s).digest('hex'): a digest of the hashed text
md5(s) == <<"md5">> \o s

\* extractFragment: id = md5(url + headingText + contentText), url = url + '#' + anchor
extractFragment(url, h) ==
  [id |-> md5(UrlText(url) \o <<h.text, h.content>>),
   url |-> [url EXCEPT !.hash = h.text]]

\* extractStandaloneFragment: id = md5(url + $elem.text()), url = `${url}#${id}`
extractStandaloneFragment(url, text) ==
  [id |-> md5(UrlText(url) \o <<text>>),
   url |-> [url EXCEPT !.hash = text]]

\* a fragment whose id also hashed a field of the run (its crawl_version)
HeadingFragmentStamped(url, h, ver) ==
  [id |-> md5(UrlText(url) \o <<h.text, h.content, ToString(ver)>>),
   url |-> extractFragment(url, h).url,
   page_url |-> baseUrl(url), crawl_version |-> ver]

\* the versioning fields added to a heading fragment: page_url is set
HeadingFragment(url, h, ver) ==
  [id |-> extractFragment(url, h).id, url |-> extractFragment(url, h).url,
   page_url |-> baseUrl(url), crawl_version |-> ver]

\* the versioning fields added to a standalone fragment: no page_url
StandaloneFragment(url, text, ver) ==
  [id |-> extractStandaloneFragment(url, text).id,
   url |-> extractStandaloneFragment(url, text).url,
   page_url |-> NoUrl, crawl_version |-> ver]

\* the fragments of a page with the standalone ones first and the heading
\* fragments in reverse
extractFragmentsReversed(url, ver) ==
  [i \in 1..Len(Dom(url.path).standalone) |->
     StandaloneFragment(url, Dom(url.path).standalone[i], ver)]
  \o
  [i \in 1..Len(Dom(url.path).headings) |->
     HeadingFragment(url, Dom(url.path).headings[Len(Dom(url.path).headings) + 1 - i], ver)]

\* extractFragments: the heading fragments in document order, then the standalone ones
extractFragments(url, ver) ==
  [i \in 1..Len(Dom(url.path).headings) |->
     HeadingFragment(url, Dom(url.path).headings[i], ver)]
  \o
  [i \in 1..Len(Dom(url.path).standalone) |->
     StandaloneFragment(url, Dom(url.path).standalone[i], ver)]

(***************************************************************************)
(* The store as earlier runs left it: the site's own fragments and pages   *)
(* at the previous crawl version, documents of host A whose content has    *)
(* since gone, and documents of two other hosts.                           *)
(***************************************************************************)
SeqToSet(s) == {s[i] : i \in 1..Len(s)}

SitePaths == {"/", "/m1", "/c1", "/c2", "/e1"}

PrevFragments ==
  UNION {SeqToSet(extractFragments(A(p), PrevVersion)) : p \in SitePaths}
  \cup {HeadingFragment(A("/"), [text |-> "News", content |-> "old"], PrevVersion),
        StandaloneFragment(A("/"), "oldalert", PrevVersion),
        HeadingFragment(U(HostB, "/"), [text |-> "Sign in", content |-> "login"], PrevVersion),
        HeadingFragment(U(HostC, "/"), [text |-> "Medicare", content |-> "card"], PrevVersion)}

PageDoc(page, ids, ver) ==
  [id |-> page, url |-> page, host |-> hostname(page),
   fragment_ids |-> ids, fragment_count |-> Len(ids), crawl_version |-> ver]

PrevPages ==
  {PageDoc(A("/"), <<>>, PrevVersion), PageDoc(A("/c1"), <<>>, PrevVersion),
   PageDoc(A("/gone"), <<>>, PrevVersion),
   PageDoc(U(HostB, "/"), <<>>, PrevVersion), PageDoc(U(HostC, "/"), <<>>, PrevVersion)}

\* action=upsert: the document replaces the stored one with the same id
Upsert(store, doc) == {d \in store : d.id # doc.id} \cup {doc}

\* the documents added to the collection without replacing the stored ones
UpsertAllInsert(store, docs) == store \cup {docs[i] : i \in 1..Len(docs)}

\* the documents of docs upserted one after the other: the last one of an id stays
UpsertAll(store, docs) ==
  {d \in store : \A i \in 1..Len(docs) : docs[i].id # d.id}
  \cup {docs[i] : i \in {k \in 1..Len(docs) :
                           \A j \in (k + 1)..Len(docs) : docs[j].id # docs[k].id}}

\* the documents of seq named by the index set idx, in order
RECURSIVE Pick(_, _, _)
Pick(seq, idx, i) ==
  IF i > Len(seq) THEN <<>>
  ELSE (IF i \in idx THEN <<seq[i]>> ELSE <<>>) \o Pick(seq, idx, i + 1)

(***************************************************************************)
(* State.                                                                  *)
(***************************************************************************)
VARIABLES
  scen,          \* the site and cfg of this run
  concurrency,   \* CONCURRENCY
  rpc,           \* where the driver (main, run) stands
  runErr,        \* run() is leaving its try block with an error
  targetHost,    \* this.targetHost (<<>> is null)
  browser,       \* "none", "open", "closed"
  launches,      \* the option sets puppeteer.launch was called with
  robots,        \* the URLs the loaded robots policy disallows
  robotsLoads,   \* the calls of fetchRobots: whether robots.txt was loaded
  tasks,         \* every crawl() call made: url, depth, retries, position
  queue,         \* p-limit's queue of calls not yet started
  active,        \* the calls holding a p-limit slot
  pendingCrawls, \* this.pendingCrawls
  sitemapCrawls, \* the promises of the sitemap Promise.all
  startCrawl,    \* the start-URL call (0: not made yet)
  waitedCount,   \* run()'s waitedCount
  currentCount,  \* run()'s currentCount
  visited,       \* this.visited
  requestCount,  \* this.requestCount
  fragments,     \* this.fragments
  recorded,      \* monitor.recordCrawl calls: <<url, success>>
  fetches,       \* how often each URL was navigated to
  faults,        \* I/O failures injected so far
  fragStore,     \* collection content_fragments
  pageStore,     \* collection content_pages
  batchAt,       \* indexFragments' loop index i
  deletes,       \* the delete calls issued by pruneStaleDocs, with their outcome
  pagesIndexed,  \* indexPages has finished
  writes,        \* the batches written: collection, size, outcome of the batched write
  now,           \* Date.now(), in milliseconds
  loadedVersion, \* CRAWL_VERSION of the loaded scraper module (-1: not loaded)
  runVersions,   \* the crawl_version of each run started so far, in start order
  call           \* the last call of a function made on its own: name, arguments, result

vars == <<scen, concurrency, rpc, runErr, targetHost, browser, launches, robots,
          robotsLoads, tasks,
          queue,
          active, pendingCrawls, sitemapCrawls, startCrawl, waitedCount, currentCount,
          visited, requestCount, fragments, recorded, fetches, faults, fragStore,
          pageStore, batchAt, deletes, pagesIndexed, writes, now, loadedVersion,
          runVersions, call>>

driverVars == <<rpc, runErr, targetHost, browser, launches, robots, robotsLoads,
                sitemapCrawls,
                startCrawl,
                waitedCount, currentCount>>
storeVars == <<fragStore, pageStore, batchAt, deletes, pagesIndexed, writes>>
clockVars == <<now, loadedVersion, runVersions>>
crawlVars == <<tasks, queue, active, pendingCrawls, visited, requestCount, fragments,
               recorded, fetches>>

\* no function has been called on its own
NoCall == [op |-> "none"]

\* constructor: visited, fragments, requestCount, targetHost, pendingCrawls
RunInit ==
  /\ scen \in Scenarios
  /\ concurrency \in 1..MaxConcurrency
  /\ rpc = "run"
  /\ runErr = FALSE
  /\ targetHost = <<>>
  /\ browser = "none"
  /\ launches = <<>>
  /\ robots = {}
  /\ robotsLoads = <<>>
  /\ tasks = <<>>
  /\ queue = <<>>
  /\ active = {}
  /\ pendingCrawls = <<>>
  /\ sitemapCrawls = {}
  /\ startCrawl = 0
  /\ waitedCount = 0
  /\ currentCount = 0
  /\ visited = {}
  /\ requestCount = 0
  /\ fragments = <<>>
  /\ recorded = {}
  /\ fetches = <<>>
  /\ faults = 0
  /\ fragStore = PrevFragments
  /\ pageStore = PrevPages
  /\ batchAt = 0
  /\ deletes = <<>>
  /\ pagesIndexed = FALSE
  /\ writes = <<>>
  /\ call = NoCall

\* one run, of a process whose module was loaded with CRAWL_VERSION
Init ==
  /\ RunInit
  /\ now = 0
  /\ loadedVersion = CRAWL_VERSION
  /\ runVersions = <<CRAWL_VERSION>>

(***************************************************************************)
(* crawl(): the guard, and the links a page's task follows.                *)
(***************************************************************************)
Min(a, b) == IF a < b THEN a ELSE b

\* link discovery at every depth
FollowsLinksAlways(depth) == TRUE

\* if (depth < this.cfg.maxDepth): the links of the page are followed
FollowsLinks(depth) == depth < scen.maxDepth

\* a guard that did not ask the robots policy
CrawlStopsNoRobots(url, depth) ==
  url \in visited \/ depth > scen.maxDepth

\* if (this.visited.has(url) || depth > this.cfg.maxDepth || !robots.isAllowed(url, '*')) return
CrawlStops(url, depth) ==
  url \in visited \/ depth > scen.maxDepth \/ url \in robots

\* l.href.match(/\.(pdf|doc|docx|xls|xlsx)$/i)
BinaryDocument(u) == u.path \in {"/form.pdf", "/form.docx"}

\* a filter that keeps every link
LinkKeptAny(url, l) == TRUE

\* the filter of priorityLinks
LinkKept(url, l) ==
  /\ origin(l.href) = origin(url)
  /\ ~BinaryDocument(l.href)
  /\ l.href.hash = ""
  /\ l.href.path \notin scen.exclude

\* a sort that leaves the links as they are
SortByScoreNone(links) == links

\* links.sort((a, b) => bScore - aScore): a stable sort, highest score first.
\* The place of link i: after every link of a higher score and every earlier
\* link of the same score.
ScoreRank(links, i) ==
  1 + Cardinality({j \in 1..Len(links) :
                     \/ links[j].score > links[i].score
                     \/ links[j].score = links[i].score /\ j < i})

SortByScore(links) ==
  [k \in 1..Len(links) |-> links[CHOOSE i \in 1..Len(links) : ScoreRank(links, i) = k]]

\* links.filter(...)
FilterLinks(url, links) ==
  Pick(links, {i \in 1..Len(links) : LinkKept(url, links[i])}, 1)

\* filter, sort, slice(0, maxLinksPerPage), map(l => l.href)
priorityLinks(url) ==
  CHOOSE hrefs \in
    { [i \in 1..Min(scen.maxLinksPerPage, Len(sorted)) |-> sorted[i].href] :
        sorted \in { SortByScore(kept) :
                       kept \in {FilterLinks(url, LinksOf(scen, url))} } } : TRUE

(***************************************************************************)
(* Crawl calls.  pc: "queued" (in p-limit's queue), "throttle" (in         *)
(* delay(200)), "newPage", "load" (goto .. extractFragments), "links"      *)
(* (page.evaluate), "backoff" (delay(1000) in the catch), "close"          *)
(* (page.close in the finally), "resolved", "rejected".                    *)
(***************************************************************************)
NewCall(url, depth, pooled, parent) ==
  [url |-> url, depth |-> depth, retries |-> Retries, pc |-> "queued",
   pooled |-> pooled, parent |-> parent, frames |-> 0, tabs |-> 0, err |-> FALSE]

Settled(t) == tasks[t].pc \in {"resolved", "rejected"}

\* the tabs opened by crawl and not closed
RECURSIVE TabsUpTo(_)
TabsUpTo(n) == IF n = 0 THEN 0 ELSE tasks[n].tabs + TabsUpTo(n - 1)
OpenTabs == TabsUpTo(Len(tasks))

\* a call that awaited the crawls it queued would wait for all its children
AwaitedChildrenMutant(t) == {c \in 1..Len(tasks) : tasks[c].parent = t}

\* the children of a call that the call waits for before it goes on to its
\* finally block: none, the forEach queues them without awaiting
AwaitedChildren(t) == {}

\* The synchronous head of crawl() for call t of base: the guard, the request
\* count, the throttle (rps > 5 is the environment's) and visited.add.
\* A call made from the catch block (frames > 0) returns into that block.
EnterCrawl(t, base, act) ==
  LET r == base[t] IN
  IF CrawlStops(r.url, r.depth)
  THEN /\ UNCHANGED <<visited, requestCount>>
       /\ IF r.frames > 0
          THEN /\ tasks' = [base EXCEPT ![t].pc = "close", ![t].frames = r.frames - 1]
               /\ active' = act
          ELSE /\ tasks' = [base EXCEPT ![t].pc = "resolved"]
               /\ active' = act \ {t}
  ELSE /\ requestCount' = requestCount + 1
       /\ active' = act
       /\ \E throttled \in (IF (requestCount + 1) % ThrottleEvery = 0
                            THEN BOOLEAN ELSE {FALSE}) :
            IF throttled
            THEN /\ tasks' = [base EXCEPT ![t].pc = "throttle"]
                 /\ visited' = visited
            ELSE /\ tasks' = [base EXCEPT ![t].pc = "newPage"]
                 /\ visited' = visited \cup {r.url}

\* p-limit: a queued call starts when a slot is free, in queue order
PoolStart ==
  /\ queue # <<>>
  /\ Cardinality(active) < concurrency
  /\ EnterCrawl(Head(queue), tasks, active \cup {Head(queue)})
  /\ queue' = Tail(queue)
  /\ UNCHANGED <<pendingCrawls, fragments, recorded, fetches, faults>>
  /\ UNCHANGED driverVars
  /\ UNCHANGED storeVars
  /\ UNCHANGED <<call, scen, concurrency, now, loadedVersion, runVersions>>

\* await delay(200) is over: this.visited.add(url)
CrawlThrottled(t) ==
  /\ tasks[t].pc = "throttle"
  /\ visited' = visited \cup {tasks[t].url}
  /\ tasks' = [tasks EXCEPT ![t].pc = "newPage"]
  /\ UNCHANGED <<queue, active, pendingCrawls, requestCount, fragments, recorded,
                 fetches, faults>>
  /\ UNCHANGED driverVars
  /\ UNCHANGED storeVars
  /\ UNCHANGED <<call, scen, concurrency, now, loadedVersion, runVersions>>

\* an I/O operation of a page may fail: always once the browser is closed,
\* else on the site's flaky pages, within the fault budget
MayFail(url) == browser # "open" \/ (faults < MaxFaults /\ url.path \in scen.flaky)
MaySucceed == browser = "open"
Fault == IF browser = "open" THEN faults + 1 ELSE faults

Fetched(url) ==
  IF url \in DOMAIN fetches THEN [fetches EXCEPT ![url] = @ + 1]
  ELSE fetches @@ (url :> 1)

\* the catch block of crawl(): recordCrawl(url, false), then the backoff if retries are left
Caught(t) ==
  /\ recorded' = recorded \cup {<<tasks[t].url, FALSE>>}
  /\ tasks' = [tasks EXCEPT ![t].pc = IF tasks[t].retries > 0 THEN "backoff" ELSE "close"]

\* const page = await browser.newPage(): outside the try block
CrawlNewPage(t) ==
  /\ tasks[t].pc = "newPage"
  /\ \/ /\ MaySucceed
        /\ tasks' = [tasks EXCEPT ![t].pc = "load", ![t].tabs = @ + 1]
        /\ UNCHANGED <<active, faults>>
     \/ /\ MayFail(tasks[t].url)
        /\ faults' = Fault
        /\ IF tasks[t].frames > 0
           THEN /\ tasks' = [tasks EXCEPT ![t].pc = "close", ![t].frames = @ - 1,
                                          ![t].err = TRUE]
                /\ active' = active
           ELSE /\ tasks' = [tasks EXCEPT ![t].pc = "rejected"]
                /\ active' = active \ {t}
  /\ UNCHANGED <<queue, pendingCrawls, visited, requestCount, fragments, recorded, fetches>>
  /\ UNCHANGED driverVars
  /\ UNCHANGED storeVars
  /\ UNCHANGED <<call, scen, concurrency, now, loadedVersion, runVersions>>

\* page.goto .. page.content .. extractFragments, this.fragments.push(...frags),
\* recordCrawl(url, true)
CrawlLoad(t) ==
  /\ tasks[t].pc = "load"
  /\ fetches' = Fetched(tasks[t].url)
  /\ \/ /\ MaySucceed
        /\ fragments' = fragments \o extractFragments(tasks[t].url, CRAWL_VERSION)
        /\ recorded' = recorded \cup {<<tasks[t].url, TRUE>>}
        /\ tasks' = [tasks EXCEPT ![t].pc =
                       IF FollowsLinks(tasks[t].depth) THEN "links" ELSE "close"]
        /\ UNCHANGED faults
     \/ /\ MayFail(tasks[t].url)
        /\ faults' = Fault
        /\ Caught(t)
        /\ UNCHANGED fragments
  /\ UNCHANGED <<queue, active, pendingCrawls, visited, requestCount>>
  /\ UNCHANGED driverVars
  /\ UNCHANGED storeVars
  /\ UNCHANGED <<call, scen, concurrency, now, loadedVersion, runVersions>>

\* page.evaluate (the links), then every priority link is handed to this.limit and
\* its promise pushed onto pendingCrawls
CrawlLinks(t) ==
  /\ tasks[t].pc = "links"
  /\ \/ /\ MaySucceed
        /\ \E links \in {priorityLinks(tasks[t].url)} :
           LET ids == [i \in 1..Len(links) |-> Len(tasks) + i]
           IN  /\ tasks' = [tasks EXCEPT ![t].pc = "close"] \o
                           [i \in 1..Len(links) |->
                              NewCall(links[i], tasks[t].depth + 1, TRUE, t)]
               /\ queue' = queue \o ids
               /\ pendingCrawls' = pendingCrawls \o ids
        /\ UNCHANGED <<faults, recorded>>
     \/ /\ MayFail(tasks[t].url)
        /\ faults' = Fault
        /\ Caught(t)
        /\ UNCHANGED <<queue, pendingCrawls>>
  /\ UNCHANGED <<active, visited, requestCount, fragments, fetches>>
  /\ UNCHANGED driverVars
  /\ UNCHANGED storeVars
  /\ UNCHANGED <<call, scen, concurrency, now, loadedVersion, runVersions>>

\* await delay(1000); return this.crawl(browser, url, robots, depth, retries - 1)
CrawlRetry(t) ==
  /\ tasks[t].pc = "backoff"
  /\ EnterCrawl(t, [tasks EXCEPT ![t].retries = @ - 1, ![t].frames = @ + 1], active)
  /\ UNCHANGED <<queue, pendingCrawls, fragments, recorded, fetches, faults>>
  /\ UNCHANGED driverVars
  /\ UNCHANGED storeVars
  /\ UNCHANGED <<call, scen, concurrency, now, loadedVersion, runVersions>>

\* finally { await page.close() }, then the call settles (or returns to its caller's catch)
CrawlClose(t) ==
  /\ tasks[t].pc = "close"
  /\ \A c \in AwaitedChildren(t) : Settled(c)
  /\ \E ok \in {b \in BOOLEAN : IF b THEN MaySucceed ELSE MayFail(tasks[t].url)} :
       LET err == tasks[t].err \/ ~ok IN
       /\ faults' = IF ok THEN faults ELSE Fault
       /\ IF tasks[t].frames > 0
          THEN /\ tasks' = [tasks EXCEPT ![t].frames = @ - 1, ![t].err = err,
                                         ![t].tabs = IF ok THEN @ - 1 ELSE @]
               /\ active' = active
          ELSE /\ tasks' = [tasks EXCEPT ![t].pc = IF err THEN "rejected" ELSE "resolved",
                                         ![t].err = err,
                                         ![t].tabs = IF ok THEN @ - 1 ELSE @]
               /\ active' = active \ {t}
  /\ UNCHANGED <<queue, pendingCrawls, visited, requestCount, fragments, recorded, fetches>>
  /\ UNCHANGED driverVars
  /\ UNCHANGED storeVars
  /\ UNCHANGED <<call, scen, concurrency, now, loadedVersion, runVersions>>

(***************************************************************************)
(* The driver: main and run().                                             *)
(***************************************************************************)
\* a Promise.all that resolves without waiting for its promises
AllResolvedAtOnce(S) == TRUE

\* await Promise.all(S) resolves: every promise of S has resolved
AllResolved(S) == \A t \in S : tasks[t].pc = "resolved"
AnyRejected(S) == \E t \in S : tasks[t].pc = "rejected"

\* await this.crawl(browser, startUrl, robots): a direct call, not through this.limit
CallStartCrawl ==
  /\ startCrawl' = Len(tasks) + 1
  /\ EnterCrawl(Len(tasks) + 1, Append(tasks, NewCall(scen.start, 0, FALSE, 0)), active)
  /\ rpc' = "startWait"

\* run(): this.targetHost = new URL(startUrl).hostname; await this.prepareCollection()
RunStart ==
  /\ rpc = "run"
  /\ targetHost' = hostname(scen.start)
  /\ \E prepared \in BOOLEAN : rpc' = IF prepared THEN "launch" ELSE "rejected"
  /\ UNCHANGED <<runErr, browser, launches, robots, robotsLoads, sitemapCrawls, startCrawl, waitedCount,
                 currentCount>>
  /\ UNCHANGED crawlVars
  /\ UNCHANGED faults
  /\ UNCHANGED storeVars
  /\ UNCHANGED <<call, scen, concurrency, now, loadedVersion, runVersions>>

\* a run that gave up at the first failed launch
onLaunchFailedNoRetry(attempt) == "rejected"

\* where run() goes when a launch fails: the catch (e1) retries the first one with
\* the fallback options, the second failure is thrown out of run()
onLaunchFailed(attempt) == IF attempt = 1 THEN "launchFallback" ELSE "rejected"

\* browser = await withTimeout(puppeteer.launch(launchOpts), 30000, ...)
Launch ==
  /\ rpc = "launch"
  /\ launches' = Append(launches, "launchOpts")
  /\ \/ browser' = "open" /\ rpc' = "robots"
     \/ browser' = browser /\ rpc' = onLaunchFailed(1)
  /\ UNCHANGED <<runErr, targetHost, robots, robotsLoads, sitemapCrawls, startCrawl,
                 waitedCount, currentCount>>
  /\ UNCHANGED crawlVars
  /\ UNCHANGED faults
  /\ UNCHANGED storeVars
  /\ UNCHANGED <<call, scen, concurrency, now, loadedVersion, runVersions>>

\* browser = await withTimeout(puppeteer.launch(fallbackOpts), 45000, ...)
LaunchFallback ==
  /\ rpc = "launchFallback"
  /\ launches' = Append(launches, "fallbackOpts")
  /\ \/ browser' = "open" /\ rpc' = "robots"
     \/ browser' = browser /\ rpc' = onLaunchFailed(2)
  /\ UNCHANGED <<runErr, targetHost, robots, robotsLoads, sitemapCrawls, startCrawl,
                 waitedCount, currentCount>>
  /\ UNCHANGED crawlVars
  /\ UNCHANGED faults
  /\ UNCHANGED storeVars
  /\ UNCHANGED <<call, scen, concurrency, now, loadedVersion, runVersions>>

\* a fetchRobots without its catch block: a failed load is thrown to run()
fetchRobotsThrows(loaded) ==
  [policy |-> IF loaded THEN scen.disallow ELSE {}, thrown |-> ~loaded]

\* fetchRobots: robotsParser(robotsUrl, body) when robots.txt is loaded; when the
\* fetch fails, times out or answers with a non-2xx status, the catch block returns
\* { isAllowed: () => true }
fetchRobots(loaded) ==
  [policy |-> IF loaded THEN scen.disallow ELSE {}, thrown |-> FALSE]

\* const robots = await this.fetchRobots(startUrl), inside run()'s try block
FetchRobots ==
  /\ rpc = "robots"
  /\ \E loaded \in BOOLEAN :
       /\ robotsLoads' = Append(robotsLoads, loaded)
       /\ IF fetchRobots(loaded).thrown
          THEN /\ rpc' = "finally"
               /\ runErr' = TRUE
               /\ robots' = robots
          ELSE /\ rpc' = "sitemap"
               /\ runErr' = runErr
               /\ robots' = fetchRobots(loaded).policy
  /\ UNCHANGED <<targetHost, browser, launches, sitemapCrawls, startCrawl, waitedCount,
                 currentCount>>
  /\ UNCHANGED crawlVars
  /\ UNCHANGED faults
  /\ UNCHANGED storeVars
  /\ UNCHANGED <<call, scen, concurrency, now, loadedVersion, runVersions>>

\* const sitemapUrls = await fetchSitemapUrls(startUrl): what the call returns is an
\* input of run(), the site's sitemap or no URL at all
fetchSitemapUrls == {scen.sitemap, <<>>}

\* sitemapUrls.slice(0, maxPages).map(url => this.limit(() => this.crawl(browser, url, robots, 0)))
FetchSitemap ==
  /\ rpc = "sitemap"
  /\ \E sitemapUrls \in fetchSitemapUrls :
       IF Len(sitemapUrls) > 0
       THEN LET seeds == SubSeq(sitemapUrls, 1, Min(scen.maxPages, Len(sitemapUrls)))
                ids   == [i \in 1..Len(seeds) |-> Len(tasks) + i]
            IN  /\ tasks' = tasks \o [i \in 1..Len(seeds) |-> NewCall(seeds[i], 0, TRUE, 0)]
                /\ queue' = queue \o ids
                /\ sitemapCrawls' = SeqToSet(ids)
                /\ rpc' = "sitemapWait"
                /\ UNCHANGED <<startCrawl, active, visited, requestCount>>
       ELSE /\ CallStartCrawl
            /\ UNCHANGED <<queue, sitemapCrawls>>
  /\ UNCHANGED <<runErr, targetHost, browser, launches, robots, robotsLoads, waitedCount, currentCount>>
  /\ UNCHANGED <<pendingCrawls, fragments, recorded, fetches, faults>>
  /\ UNCHANGED storeVars
  /\ UNCHANGED <<call, scen, concurrency, now, loadedVersion, runVersions>>

\* await Promise.all(sitemap crawls), then the start URL
SitemapWait ==
  /\ rpc = "sitemapWait"
  /\ \/ /\ AllResolved(sitemapCrawls)
        /\ CallStartCrawl
        /\ UNCHANGED runErr
     \/ /\ AnyRejected(sitemapCrawls)
        /\ rpc' = "finally"
        /\ runErr' = TRUE
        /\ UNCHANGED <<startCrawl, tasks, active, visited, requestCount>>
  /\ UNCHANGED <<targetHost, browser, launches, robots, robotsLoads, sitemapCrawls, waitedCount, currentCount>>
  /\ UNCHANGED <<queue, pendingCrawls, fragments, recorded, fetches, faults>>
  /\ UNCHANGED storeVars
  /\ UNCHANGED <<call, scen, concurrency, now, loadedVersion, runVersions>>

\* the start-URL call has settled
StartWait ==
  /\ rpc = "startWait"
  /\ \/ /\ tasks[startCrawl].pc = "resolved"
        /\ rpc' = "waitLoop"
        /\ UNCHANGED runErr
     \/ /\ tasks[startCrawl].pc = "rejected"
        /\ rpc' = "finally"
        /\ runErr' = TRUE
  /\ UNCHANGED <<targetHost, browser, launches, robots, robotsLoads, sitemapCrawls, startCrawl, waitedCount,
                 currentCount>>
  /\ UNCHANGED crawlVars
  /\ UNCHANGED faults
  /\ UNCHANGED storeVars
  /\ UNCHANGED <<call, scen, concurrency, now, loadedVersion, runVersions>>

\* a driver that waited for the pending crawls once, without looking again
WaitMoreOnce == waitedCount = 0 /\ Len(pendingCrawls) > 0

\* while (this.pendingCrawls.length > waitedCount)
WaitMore == Len(pendingCrawls) > waitedCount

\* the loop test; const currentCount = this.pendingCrawls.length
WaitLoop ==
  /\ rpc = "waitLoop"
  /\ IF WaitMore
     THEN currentCount' = Len(pendingCrawls) /\ rpc' = "waiting"
     ELSE currentCount' = currentCount /\ rpc' = "index"
  /\ UNCHANGED <<runErr, targetHost, browser, launches, robots, robotsLoads, sitemapCrawls, startCrawl,
                 waitedCount>>
  /\ UNCHANGED crawlVars
  /\ UNCHANGED faults
  /\ UNCHANGED storeVars
  /\ UNCHANGED <<call, scen, concurrency, now, loadedVersion, runVersions>>

\* await Promise.all(this.pendingCrawls.slice(waitedCount)); waitedCount = currentCount
Waiting ==
  /\ rpc = "waiting"
  /\ LET slice == {pendingCrawls[i] : i \in (waitedCount + 1)..currentCount} IN
     \/ /\ AllResolved(slice)
        /\ waitedCount' = currentCount
        /\ rpc' = "waitLoop"
        /\ UNCHANGED runErr
     \/ /\ AnyRejected(slice)
        /\ rpc' = "finally"
        /\ runErr' = TRUE
        /\ UNCHANGED waitedCount
  /\ UNCHANGED <<targetHost, browser, launches, robots, robotsLoads, sitemapCrawls, startCrawl, currentCount>>
  /\ UNCHANGED crawlVars
  /\ UNCHANGED faults
  /\ UNCHANGED storeVars
  /\ UNCHANGED <<call, scen, concurrency, now, loadedVersion, runVersions>>

\* finally { await browser.close() }
CloseBrowser ==
  /\ rpc = "finally"
  /\ browser' = "closed"
  /\ rpc' = IF runErr THEN "rejected" ELSE "resolved"
  /\ UNCHANGED <<runErr, targetHost, launches, robots, robotsLoads, sitemapCrawls, startCrawl, waitedCount,
                 currentCount>>
  /\ UNCHANGED crawlVars
  /\ UNCHANGED faults
  /\ UNCHANGED storeVars
  /\ UNCHANGED <<call, scen, concurrency, now, loadedVersion, runVersions>>

(***************************************************************************)
(* indexFragments, pruneStaleDocs, indexPages.                             *)
(***************************************************************************)
\* a slice that stops one document early
BatchOneShort(docs, i) == SubSeq(docs, i + 1, Min(i + BatchSize - 1, Len(docs)))

\* this.fragments.slice(i, i + 100)
Batch(docs, i) == SubSeq(docs, i + 1, Min(i + BatchSize, Len(docs)))

\* One batch: the import applies some of its documents (all of them when nothing
\* fails); when the request throws, every document is upserted on its own, and
\* each such upsert succeeds or fails.  Without a throw there is no second write.
WriteBatch(store, batch, applied, thrown, retried) ==
  UpsertAll(UpsertAll(store, Pick(batch, applied, 1)),
            IF thrown THEN Pick(batch, retried, 1) ELSE <<>>)

\* the failed operations of one batch: a thrown import and each failed upsert
\* after it, or each document the import's response reports as failed
WriteFaults(n, applied, thrown, retried) ==
  IF thrown THEN 1 + n - Cardinality(retried) ELSE n - Cardinality(applied)

\* what one turn of the write loop did: whether the batched write failed (it threw,
\* or its response reports a document as failed) and how many documents of the
\* batch were then written individually (all of them, in the catch block)
WriteRecord(coll, n, applied, thrown) ==
  [coll |-> coll, size |-> n, failed |-> thrown \/ applied # 1..n,
   individually |-> IF thrown THEN n ELSE 0]

\* one turn of indexFragments' loop
IndexFragments ==
  /\ rpc = "index"
  /\ \/ /\ batchAt < Len(fragments)
        /\ \E batch \in {Batch(fragments, batchAt)} :
           \E applied \in SUBSET (1..Len(batch)), thrown \in BOOLEAN,
              retried \in SUBSET (1..Len(batch)) :
             /\ faults + WriteFaults(Len(batch), applied, thrown, retried) <= MaxFaults
             /\ faults' = faults + WriteFaults(Len(batch), applied, thrown, retried)
             /\ fragStore' = WriteBatch(fragStore, batch, applied, thrown, retried)
             /\ writes' = Append(writes, WriteRecord("content_fragments", Len(batch),
                                                     applied, thrown))
        /\ batchAt' = batchAt + BatchSize
        /\ rpc' = rpc
     \/ /\ batchAt >= Len(fragments)
        /\ batchAt' = 0
        /\ rpc' = "prune"
        /\ UNCHANGED <<fragStore, faults, writes>>
  /\ UNCHANGED <<pageStore, deletes, pagesIndexed>>
  /\ UNCHANGED <<runErr, targetHost, browser, launches, robots, robotsLoads, sitemapCrawls, startCrawl,
                 waitedCount, currentCount>>
  /\ UNCHANGED crawlVars
  /\ UNCHANGED <<call, scen, concurrency, now, loadedVersion, runVersions>>

\* filter_by: crawl_version:<CRAWL_VERSION && page_url:*targetHost* : the page_url
\* contains the host
FragmentFilter(d) ==
  /\ d.crawl_version < CRAWL_VERSION
  /\ d.page_url # NoUrl
  /\ Contains(UrlText(d.page_url), targetHost)

\* filter_by: crawl_version:<CRAWL_VERSION && host:=targetHost
PageFilter(d) ==
  /\ d.crawl_version < CRAWL_VERSION
  /\ d.host = targetHost

\* a prune whose delete calls were not wrapped in try/catch
DeleteNotCaught == FALSE

\* each delete call of pruneStaleDocs is in a try block of its own, whose catch
\* block logs the error
DeleteCaught == TRUE

\* a prune without the guard on the target host
PruneSkippedNever == FALSE

\* if (!this.targetHost) { warn; return }: null and the empty string are falsy
PruneSkipped == targetHost = <<>>

\* pruneStaleDocs, first delete (content_fragments); skipped without a target host
PruneFragments ==
  /\ rpc = "prune"
  /\ IF PruneSkipped
     THEN /\ rpc' = "finally"
          /\ UNCHANGED <<fragStore, deletes, faults, runErr>>
     ELSE \E ok \in {b \in BOOLEAN : b \/ faults < MaxFaults} :
            /\ faults' = IF ok THEN faults ELSE faults + 1
            /\ fragStore' = IF ok THEN {d \in fragStore : ~FragmentFilter(d)}
                            ELSE fragStore
            /\ deletes' = Append(deletes, [coll |-> "content_fragments", ok |-> ok])
            /\ rpc' = IF ok \/ DeleteCaught THEN "prunePages" ELSE "finally"
            /\ runErr' = IF ok \/ DeleteCaught THEN runErr ELSE TRUE
  /\ UNCHANGED <<pageStore, batchAt, pagesIndexed, writes>>
  /\ UNCHANGED <<targetHost, browser, launches, robots, robotsLoads, sitemapCrawls,
                 startCrawl, waitedCount, currentCount>>
  /\ UNCHANGED crawlVars
  /\ UNCHANGED <<call, scen, concurrency, now, loadedVersion, runVersions>>

\* pruneStaleDocs, second delete (content_pages)
PrunePages ==
  /\ rpc = "prunePages"
  /\ rpc' = "finally"
  /\ \E ok \in {b \in BOOLEAN : b \/ faults < MaxFaults} :
       /\ faults' = IF ok THEN faults ELSE faults + 1
       /\ pageStore' = IF ok THEN {d \in pageStore : ~PageFilter(d)} ELSE pageStore
       /\ deletes' = Append(deletes, [coll |-> "content_pages", ok |-> ok])
       /\ runErr' = IF ok \/ DeleteCaught THEN runErr ELSE TRUE
  /\ UNCHANGED <<fragStore, batchAt, pagesIndexed, writes>>
  /\ UNCHANGED <<targetHost, browser, launches, robots, robotsLoads, sitemapCrawls,
                 startCrawl, waitedCount, currentCount>>
  /\ UNCHANGED crawlVars
  /\ UNCHANGED <<call, scen, concurrency, now, loadedVersion, runVersions>>

\* const page = f.page_url || baseUrl(f.url || '')
PageOf(f) == IF f.page_url # NoUrl THEN f.page_url ELSE baseUrl(f.url)

\* the keys of buildPageDocs' Map, in insertion order: each page at its first fragment
PageKeys(frags) ==
  Pick([i \in 1..Len(frags) |-> PageOf(frags[i])],
       {i \in 1..Len(frags) : \A j \in 1..(i - 1) : PageOf(frags[j]) # PageOf(frags[i])},
       1)

\* acc.fragment_ids of a page: the ids of its fragments, in buffer order
FragmentIds(frags, page) ==
  Pick([i \in 1..Len(frags) |-> frags[i].id],
       {i \in 1..Len(frags) : PageOf(frags[i]) = page}, 1)

\* buildPageDocs: one document per page, with the ids of its fragments in buffer order
buildPageDocs(frags) ==
  LET keys == PageKeys(frags)
  IN  [k \in 1..Len(keys) |->
         PageDoc(keys[k], FragmentIds(frags, keys[k]), CRAWL_VERSION)]

\* main: scraper.run(startUrl).then(async () => { await scraper.indexPages() }):
\* one turn of indexPages' loop
IndexPages ==
  /\ rpc = "resolved"
  /\ \E docs \in {buildPageDocs(fragments)} :
     \/ /\ batchAt < Len(docs)
        /\ \E batch \in {Batch(docs, batchAt)} :
           \E applied \in SUBSET (1..Len(batch)), thrown \in BOOLEAN,
              retried \in SUBSET (1..Len(batch)) :
             /\ faults + WriteFaults(Len(batch), applied, thrown, retried) <= MaxFaults
             /\ faults' = faults + WriteFaults(Len(batch), applied, thrown, retried)
             /\ pageStore' = WriteBatch(pageStore, batch, applied, thrown, retried)
             /\ writes' = Append(writes, WriteRecord("content_pages", Len(batch),
                                                     applied, thrown))
        /\ batchAt' = batchAt + BatchSize
        /\ rpc' = rpc
        /\ UNCHANGED pagesIndexed
     \/ /\ batchAt >= Len(docs)
        /\ pagesIndexed' = TRUE
        /\ rpc' = "done"
        /\ UNCHANGED <<pageStore, batchAt, faults, writes>>
  /\ UNCHANGED <<fragStore, deletes>>
  /\ UNCHANGED <<runErr, targetHost, browser, launches, robots, robotsLoads, sitemapCrawls, startCrawl,
                 waitedCount, currentCount>>
  /\ UNCHANGED crawlVars
  /\ UNCHANGED <<call, scen, concurrency, now, loadedVersion, runVersions>>

(***************************************************************************)
(* The specification.                                                      *)
(***************************************************************************)
Next ==
  \/ RunStart
  \/ Launch
  \/ LaunchFallback
  \/ FetchRobots
  \/ FetchSitemap
  \/ SitemapWait
  \/ StartWait
  \/ WaitLoop
  \/ Waiting
  \/ IndexFragments
  \/ PruneFragments
  \/ PrunePages
  \/ CloseBrowser
  \/ IndexPages
  \/ PoolStart
  \/ \E t \in 1..Len(tasks) : CrawlThrottled(t)
  \/ \E t \in 1..Len(tasks) : CrawlNewPage(t)
  \/ \E t \in 1..Len(tasks) : CrawlLoad(t)
  \/ \E t \in 1..Len(tasks) : CrawlLinks(t)
  \/ \E t \in 1..Len(tasks) : CrawlRetry(t)
  \/ \E t \in 1..Len(tasks) : CrawlClose(t)

Spec == Init /\ [][Next]_vars

\* every step is the completion of an I/O operation or of a timer, or a turn of
\* the event loop, and each of them arrives: the run does not stop while a step
\* is possible
FairSpec == Spec /\ WF_vars(Next)

(***************************************************************************)
(* The crawl versions of successive runs.  CRAWL_VERSION is computed once, *)
(* when the scraper module is loaded; every run of the process (main, or a *)
(* caller that requires the exported class and runs it for several         *)
(* targets) stamps its documents with it.                                  *)
(***************************************************************************)
\* const CRAWL_VERSION = Math.floor(Date.now() / 1000)
crawlVersion(t) == t \div MsPerSecond

VersionInit ==
  /\ RunInit
  /\ now = 0
  /\ loadedVersion = -1
  /\ runVersions = <<>>

\* time passes
Tick ==
  /\ now < MaxClock
  /\ now' = now + ClockStep
  /\ UNCHANGED <<loadedVersion, runVersions>>
  /\ UNCHANGED <<call, scen, concurrency, faults>>
  /\ UNCHANGED driverVars
  /\ UNCHANGED crawlVars
  /\ UNCHANGED storeVars

\* a process starts and loads scraper.js: the module constant is computed
LoadModule ==
  /\ loadedVersion' = crawlVersion(now)
  /\ UNCHANGED <<now, runVersions>>
  /\ UNCHANGED <<call, scen, concurrency, faults>>
  /\ UNCHANGED driverVars
  /\ UNCHANGED crawlVars
  /\ UNCHANGED storeVars

\* new MyGovScraper(cfg).run(startUrl): the run stamps the loaded CRAWL_VERSION
StartRun ==
  /\ loadedVersion >= 0
  /\ Len(runVersions) < MaxRuns
  /\ runVersions' = Append(runVersions, loadedVersion)
  /\ UNCHANGED <<now, loadedVersion>>
  /\ UNCHANGED <<call, scen, concurrency, faults>>
  /\ UNCHANGED driverVars
  /\ UNCHANGED crawlVars
  /\ UNCHANGED storeVars

VersionNext == Tick \/ LoadModule \/ StartRun

VersionSpec == VersionInit /\ [][VersionNext]_vars

(***************************************************************************)
(* A second run of the pipeline on the unchanged site: the store holds     *)
(* what a first run left in which nothing failed and every page of the     *)
(* site was fetched.                                                       *)
(***************************************************************************)
\* the pages the first run fetched on site sc, in the order it fetched them
FirstRunFetched(sc) ==
  IF sc.name = "tree"
    THEN <<"/m1", "/c1", "/", "/c2", "/e1">>
    ELSE <<"/", "/l1", "/l2", "/l3", "/l4", "/l5", "/l6", "/l7", "/l8", "/l9">>

\* this.fragments of the first run: the fragments of the pages it fetched
RECURSIVE FirstRunBuffer(_)
FirstRunBuffer(paths) ==
  IF paths = <<>> THEN <<>>
  ELSE extractFragments(A(Head(paths)), PrevVersion) \o FirstRunBuffer(Tail(paths))

\* content_fragments after the first run's indexFragments
FirstRunFragments(sc) == UpsertAll({}, FirstRunBuffer(FirstRunFetched(sc)))

\* content_pages after the first run's indexPages
FirstRunPages(sc) ==
  {[d EXCEPT !.crawl_version = PrevVersion] :
     d \in SeqToSet(buildPageDocs(FirstRunBuffer(FirstRunFetched(sc))))}

RecrawlInit ==
  /\ scen \in {Tree, Wide}
  /\ concurrency \in 1..MaxConcurrency
  /\ rpc = "run"
  /\ runErr = FALSE
  /\ targetHost = <<>>
  /\ browser = "none"
  /\ launches = <<>>
  /\ robots = {}
  /\ robotsLoads = <<>>
  /\ tasks = <<>>
  /\ queue = <<>>
  /\ active = {}
  /\ pendingCrawls = <<>>
  /\ sitemapCrawls = {}
  /\ startCrawl = 0
  /\ waitedCount = 0
  /\ currentCount = 0
  /\ visited = {}
  /\ requestCount = 0
  /\ fragments = <<>>
  /\ recorded = {}
  /\ fetches = <<>>
  /\ faults = 0
  /\ fragStore = FirstRunFragments(scen)
  /\ pageStore = FirstRunPages(scen)
  /\ batchAt = 0
  /\ deletes = <<>>
  /\ pagesIndexed = FALSE
  /\ writes = <<>>
  /\ call = NoCall
  /\ now = 0
  /\ loadedVersion = CRAWL_VERSION
  /\ runVersions = <<PrevVersion, CRAWL_VERSION>>

RecrawlSpec == RecrawlInit /\ [][Next]_vars

(***************************************************************************)
(* Claims.                                                                 *)
(***************************************************************************)
AllSettled == queue = <<>> /\ active = {} /\ \A t \in 1..Len(tasks) : Settled(t)

\* the host a fragment document belongs to
FragmentHost(d) == hostname(d.url)

\* C1: the prune pass of a run on host A deletes no fragment and no page document
\* of another host, whatever its crawl_version: every document the store held for
\* another host before the run is still there.
C1_ScopedPruning ==
  /\ \A d \in PrevFragments : FragmentHost(d) # hostname(scen.start) => d \in fragStore
  /\ \A d \in PrevPages : d.host # hostname(scen.start) => d \in pageStore

\* C2: a fragment the run extracted is not removed by the run's prune pass: if the
\* store held a document with its id before the run, it holds one with that id
\* once the prune pass is over, also when the write of the fragment failed.
C2_NoSilentDataLoss ==
  rpc \in {"finally", "resolved", "done"} =>
    \A i \in 1..Len(fragments) :
      (\E d \in PrevFragments : d.id = fragments[i].id) =>
        (\E d \in fragStore : d.id = fragments[i].id)

\* C3: a delete is issued only after all writes of the run have completed, the
\* fragment writes and the page-document writes.
C3_WriteBeforePrune ==
  deletes # <<>> => rpc # "index" /\ pagesIndexed

\* C4: after a run on host H whose two deletes both succeeded, the store holds no
\* fragment and no page document of H with a crawl_version below CRAWL_VERSION.
C4_StaleRemoved ==
  (rpc = "done" /\ Len(deletes) = 2 /\ \A i \in 1..Len(deletes) : deletes[i].ok) =>
    /\ \A d \in fragStore :
         FragmentHost(d) = targetHost => d.crawl_version >= CRAWL_VERSION
    /\ \A d \in pageStore :
         d.host = targetHost => d.crawl_version >= CRAWL_VERSION

\* C5: a call whose page fetch failed and that has made its retry call has
\* navigated to the URL again.
C5_FetchRetried ==
  \A t \in 1..Len(tasks) :
    (tasks[t].retries < Retries /\ tasks[t].pc # "backoff"
       /\ <<tasks[t].url, TRUE>> \notin recorded) =>
      fetches[tasks[t].url] > 1

\* C6: once the browser is launched no failure inside a crawl task aborts the
\* run: when the browser is closed again the run has indexed and pruned.
C6_PageFailureNotFatal ==
  browser = "closed" => ~runErr /\ Len(deletes) = 2

\* C7: no URL is navigated to more than once in a run.
C7_FetchedOnce ==
  \A u \in DOMAIN fetches : fetches[u] <= 1

\* C8: every call handed to the pool starts and finishes and gives its slot back:
\* from some point on the queue is empty, no slot is held and every call is settled.
C8_PoolDrains == <>[]AllSettled

\* C8 witness: the pool is full, a call holding a slot has queued children
C8_Witness ==
  /\ Cardinality(active) = concurrency
  /\ \E c \in 1..Len(tasks) : tasks[c].pc = "queued" /\ tasks[c].parent \in active

\* C9: indexFragments (and the prune after it) runs only when no crawl call is
\* queued or running.
C9_DrainBeforeIndex ==
  rpc \in {"index", "prune", "prunePages"} => AllSettled

\* C9 witness: the driver waits a second time, for calls that were pushed while it
\* was waiting for the earlier ones
C9_Witness ==
  rpc = "waiting" /\ waitedCount > 0

\* C10: the tabs opened by crawl and not yet closed never exceed CONCURRENCY.
C10_BoundedConcurrency ==
  OpenTabs <= concurrency

\* C11: the pages fetched in one run (the URLs navigated to) never exceed maxPages.
C11_MaxPagesBound ==
  Cardinality(DOMAIN fetches) <= scen.maxPages

\* the URLs within distance d of the start URL, following the priority links of
\* each page that the loaded robots policy allows
RECURSIVE Within(_)
Within(d) ==
  IF d = 0 THEN {scen.start} \ robots
  ELSE Within(d - 1) \cup
       {l \in UNION {SeqToSet(priorityLinks(u)) : u \in Within(d - 1)} : l \notin robots}

\* C12: when no fetch failed, every URL within maxDepth of the start URL has been
\* fetched when the crawl is over, whatever the order the concurrent calls ran in.
C12_CompleteTraversal ==
  (rpc = "index" /\ batchAt = 0 /\ faults = 0) =>
    \A u \in Within(scen.maxDepth) : u \in DOMAIN fetches

\* C13: the robots policy is fetched once, before any page is fetched, and no URL
\* the loaded policy disallows is ever fetched.
C13_RobotsCompliance ==
  /\ Len(robotsLoads) <= 1
  /\ fetches # <<>> => Len(robotsLoads) = 1
  /\ \A u \in DOMAIN fetches : u \notin robots

\* C13 witness: a disallowed URL was found as a link and handed to crawl, which
\* returned without fetching it, while pages of the site were fetched
C13_Witness ==
  /\ fetches # <<>>
  /\ \E t \in 1..Len(tasks) :
       tasks[t].url \in robots /\ tasks[t].parent # 0 /\ tasks[t].pc = "resolved"

\* C14: when robots.txt cannot be loaded the policy allows every URL and the run
\* goes on: it is in error only if a crawl call rejected later.
C14_RobotsFallback ==
  robotsLoads = <<FALSE>> =>
    /\ robots = {}
    /\ runErr => \E t \in 1..Len(tasks) : tasks[t].pc = "rejected"

\* C14 witness: robots.txt could not be loaded, the run completed and fetched the
\* page the site's robots.txt disallows
C14_Witness ==
  /\ robotsLoads = <<FALSE>>
  /\ rpc = "done"
  /\ \E u \in scen.disallow : u \in DOMAIN fetches

\* C15: a failed first launch is followed by exactly one launch with the fallback
\* options; when that fails too run() rejects and no page was fetched, no document
\* written and no delete issued.
C15_LaunchFallback ==
  /\ Len(launches) <= 2
  /\ (Len(launches) = 1 /\ browser = "none") => rpc = "launchFallback"
  /\ Len(launches) = 2 => launches = <<"launchOpts", "fallbackOpts">>
  /\ (Len(launches) = 2 /\ browser = "none") =>
       /\ rpc = "rejected"
       /\ fetches = <<>> /\ tasks = <<>>
       /\ fragStore = PrevFragments /\ pageStore = PrevPages
       /\ deletes = <<>>

\* C15 witness: both launches failed and run() rejected
C15_Witness ==
  launches = <<"launchOpts", "fallbackOpts">> /\ browser = "none" /\ rpc = "rejected"

\* C16: every document a run wrote carries the crawl_version of the run, and the
\* crawl_version of a later run is strictly greater than that of every earlier run.
C16_GenerationStamping ==
  /\ \A d \in (fragStore \ PrevFragments) \cup (pageStore \ PrevPages) :
       d.crawl_version = runVersions[Len(runVersions)]
  /\ \A i, j \in 1..Len(runVersions) : i < j => runVersions[i] < runVersions[j]

\* C17: whenever the batched write of a batch fails, by a thrown error or by an
\* error response of the store, every document of the batch is written individually.
C17_BatchFallback ==
  \A i \in 1..Len(writes) :
    writes[i].failed => writes[i].individually = writes[i].size

\* C18: a failed delete of the prune pass leaves the documents it would have
\* removed in the store, the other collection's delete is still attempted, and
\* run() completes normally.
C18_PruneFailureNotFatal ==
  /\ deletes # <<>> => ~runErr /\ rpc \in {"prunePages", "finally", "resolved", "done"}
  /\ (deletes # <<>> /\ rpc \in {"finally", "resolved", "done"}) => Len(deletes) = 2
  /\ \A i \in 1..Len(deletes) :
       ~deletes[i].ok =>
         IF deletes[i].coll = "content_fragments"
         THEN \A d \in PrevFragments :
                (\A k \in 1..Len(fragments) : fragments[k].id # d.id) => d \in fragStore
         ELSE \A d \in PrevPages :
                (\A k \in 1..Len(fragments) : PageOf(fragments[k]) # d.id) => d \in pageStore

\* C18 witness: the fragment delete failed, the page delete was made, run() resolved
\* and a stale fragment of the target host is still in the store
C18_Witness ==
  /\ Len(deletes) = 2 /\ ~deletes[1].ok
  /\ rpc = "resolved"
  /\ \E d \in fragStore : FragmentFilter(d)

\* C19: the ids of the fragments a run extracts from a page are those an earlier
\* run extracted from the same, unchanged page: the id depends on the URL and the
\* texts only.
C19_IdempotentIdentity ==
  \A u \in {r[1] : r \in {x \in recorded : x[2]}} :
    {fragments[i].id : i \in {k \in 1..Len(fragments) : baseUrl(fragments[k].url) = u}}
      = {d.id : d \in SeqToSet(extractFragments(u, PrevVersion))}

\* C19 witness: a page with a heading fragment and a standalone fragment was
\* extracted again
C19_Witness ==
  /\ \E i \in 1..Len(fragments) : fragments[i].page_url # NoUrl
  /\ \E i \in 1..Len(fragments) : fragments[i].page_url = NoUrl

\* C20: after a second run on the unchanged site in which nothing failed, the
\* store holds the fragment ids and the page ids it held after the first run.
C20_NoOpRecrawl ==
  (rpc = "done" /\ faults = 0 /\ robotsLoads = <<TRUE>>) =>
    /\ {d.id : d \in fragStore} = {d.id : d \in FirstRunFragments(scen)}
    /\ {d.id : d \in pageStore} = {d.id : d \in FirstRunPages(scen)}

(***************************************************************************)
(* buildPageDocs as a function of the fragment list: the fields it         *)
(* aggregates per page.  A text is a sequence of normalised words.         *)
(***************************************************************************)
MaxFrags == 4
ContentCap == 40000
AddCap == 4000
NL == "\n"

\* the otherwise unused variables of a specification that calls one function
restVars == <<scen, concurrency, faults, driverVars, crawlVars, storeVars, clockVars>>

\* a fragment as enrichWithTaxonomy hands it to the buffer, with the fields
\* buildPageDocs reads
Frag(id, page, lvl0, stage, variant, text, cats) ==
  [id |-> id, page_url |-> page, hierarchy_lvl0 |-> lvl0, stage |-> stage,
   stage_variant |-> variant, content_text |-> text, categories |-> cats]

AggFragments ==
  {Frag("f1", A("/c1"), "Carers", "before", "first child", <<"carer">>, {"Health"}),
   Frag("f2", A("/c1"), "Payments", "after", "", <<"payment", "rates">>, {"Money"}),
   Frag("f3", A("/c1"), "Carers", "", "", <<>>, {}),
   Frag("f4", A("/c1"), "Payments", "", "surrogacy", <<"carer">>, {"Health"}),
   Frag("f5", A("/"), "Home", "before", "", <<"welcome">>, {})}

Injective(f) == \A i, j \in DOMAIN f : f[i] = f[j] => i = j

\* this.fragments: the fragments of AggFragments in any order, each at most once
AggInputs ==
  UNION {{q \in [1..n -> AggFragments] : Injective(q)} : n \in 0..MaxFrags}

\* const page = f.page_url || baseUrl(f.url || '')
pageOf(f) == f.page_url

\* the fragments of one page, in buffer order
OfPage(frags, page) == SelectSeq(frags, LAMBDA f : pageOf(f) = page)

\* acc._lvl0Counts.get(v)
lvl0Count(fs, v) == Cardinality({i \in 1..Len(fs) : fs[i].hierarchy_lvl0 = v})

\* Array.from(acc._lvl0Counts.entries()).sort((a,b)=>b[1]-a[1])[0][0]: the
\* entry with the highest count; the sort is stable and the Map keeps insertion
\* order, so among equal counts the value seen first wins
pickTitle(fs) ==
  LET firsts == {i \in 1..Len(fs) : fs[i].hierarchy_lvl0 # "" /\
                   \A j \in 1..(i - 1) : fs[j].hierarchy_lvl0 # fs[i].hierarchy_lvl0}
  IN IF firsts = {} THEN "undefined"
     ELSE LET k == CHOOSE i \in firsts :
                     \A j \in firsts :
                       \/ lvl0Count(fs, fs[j].hierarchy_lvl0) < lvl0Count(fs, fs[i].hierarchy_lvl0)
                       \/ /\ lvl0Count(fs, fs[j].hierarchy_lvl0) = lvl0Count(fs, fs[i].hierarchy_lvl0)
                          /\ i <= j
          IN fs[k].hierarchy_lvl0

\* Array.from(acc.stage)[0] || '': the first value added to the Set
firstAdded(fs, field) ==
  LET idx == {i \in 1..Len(fs) : fs[i][field] # ""}
  IN IF idx = {} THEN "" ELSE fs[CHOOSE i \in idx : \A j \in idx : i <= j][field]

\* acc.content_text after the fragments fs: each text cut at AddCap and joined
\* by a newline, while the accumulated text is shorter than ContentCap
RECURSIVE accContent(_)
accContent(fs) ==
  IF fs = <<>> THEN <<>>
  ELSE LET acc == accContent(SubSeq(fs, 1, Len(fs) - 1))
           text == fs[Len(fs)].content_text
           add == SubSeq(text, 1, IF Len(text) < AddCap THEN Len(text) ELSE AddCap)
       IN IF Len(acc) < ContentCap
            THEN acc \o (IF acc # <<>> THEN <<NL>> ELSE <<>>) \o add
            ELSE acc

\* buildHashedEmbedding: the count of each token of the text (the vector holds
\* the counts at the tokens' hash indexes, L2-normalised)
buildHashedEmbedding(text) ==
  LET toks == {text[i] : i \in {k \in 1..Len(text) : text[k] # NL}}
  IN [t \in toks |-> Cardinality({i \in 1..Len(text) : text[i] = t})]

\* the document buildPageDocs pushes for one page
pageDocument(frags, page) ==
  LET fs == OfPage(frags, page)
  IN [id |-> page, url |-> page, host |-> hostname(page),
      title |-> pickTitle(fs),
      fragment_ids |-> [i \in 1..Len(fs) |-> fs[i].id],
      fragment_count |-> Len(fs),
      categories |-> UNION {fs[i].categories : i \in 1..Len(fs)},
      stage |-> firstAdded(fs, "stage"),
      stage_variant |-> firstAdded(fs, "stage_variant"),
      content_text |-> accContent(fs),
      embedding |-> buildHashedEmbedding(accContent(fs))]

\* buildPageDocs: one document for each page of the buffer
pageDocuments(frags) ==
  [page \in {pageOf(frags[i]) : i \in 1..Len(frags)} |-> pageDocument(frags, page)]

\* buildPageDocs() is called with this.fragments = frags
BuildPageDocs ==
  /\ call = NoCall
  /\ \E frags \in AggInputs :
       call' = [op |-> "buildPageDocs", input |-> frags, output |-> pageDocuments(frags)]
  /\ UNCHANGED restVars

AggregateInit == Init /\ scen = Tree /\ concurrency = 1

AggregateSpec == AggregateInit /\ [][BuildPageDocs]_vars

\* the rearrangements of a list
Rearrangements(seq) ==
  {[i \in 1..Len(seq) |-> seq[p[i]]] : p \in {q \in [1..Len(seq) -> 1..Len(seq)] : Injective(q)}}

\* a page document with its order-independent list field as a set
Canonical(doc) == [doc EXCEPT !.fragment_ids = SeqToSet(doc.fragment_ids)]

\* C21: buildPageDocs yields, for every rearrangement of the fragment list, the
\* same document for each page once its list of fragment ids is taken as a set.
C21_DeterministicAggregation ==
  call.op = "buildPageDocs" =>
    \A perm \in Rearrangements(call.input) :
      \A page \in DOMAIN call.output :
        Canonical(pageDocuments(perm)[page]) = Canonical(call.output[page])

(***************************************************************************)
(* extractFragment's hierarchy levels, as a function of the page: its      *)
(* title, its breadcrumbs and its headings in document order.  A heading   *)
(* has a level (h1..h4), a text and a parent element.                      *)
(***************************************************************************)
MaxHeadings == 3

LevelText == <<"Carers", "Eligibility", "How to apply", "Step 1">>

\* the headings of the crawled pages: a heading of level l reads LevelText[l] or
\* is empty
Headings ==
  UNION {{[level |-> l, text |-> t, parent |-> c] :
            t \in {LevelText[l], ""}, c \in {"main", "section"}} : l \in 1..4}

HierarchyPages ==
  {[pageTitle |-> t, breadcrumbs |-> b, headings |-> hs] :
     t \in {"", "Carer Payment"},
     b \in {<<>>, <<"Home", "Payments">>},
     hs \in UNION {[1..n -> Headings] : n \in 1..MaxHeadings}}

\* a || b on strings
Or(a, b) == IF a # "" THEN a ELSE b

\* breadcrumbs[breadcrumbs.length - 1], undefined read as ''
lastCrumb(b) == IF b = <<>> THEN "" ELSE b[Len(b)]

\* $heading.prevAll('h<level>').first().text(): the text of the nearest preceding
\* sibling of that level, '' when there is none
prevAllFirst(hs, i, level) ==
  LET sibs == {j \in 1..(i - 1) : hs[j].parent = hs[i].parent /\ hs[j].level = level}
  IN IF sibs = {} THEN "" ELSE hs[CHOOSE j \in sibs : \A k \in sibs : k <= j].text

\* hierarchyLevels of the fragment of heading i: index k is hierarchy_lvl<k>
hierarchyLevels(pg, i) ==
  LET hs == pg.headings
      headingText == hs[i].text
      top == Or(lastCrumb(pg.breadcrumbs), Or(pg.pageTitle, "Content"))
  IN CASE hs[i].level = 1 ->
            [k \in {0} |-> Or(headingText, Or(pg.pageTitle, "Content"))]
       [] hs[i].level = 2 ->
            [k \in 0..1 |-> IF k = 0 THEN top ELSE Or(headingText, "Section")]
       [] hs[i].level = 3 ->
            [k \in 0..2 |-> CASE k = 0 -> top
                              [] k = 1 -> Or(prevAllFirst(hs, i, 2), "Section")
                              [] k = 2 -> Or(headingText, "Subsection")]
       [] OTHER ->
            [k \in 0..3 |-> CASE k = 0 -> top
                              [] k = 1 -> Or(prevAllFirst(hs, i, 2), "Section")
                              [] k = 2 -> Or(prevAllFirst(hs, i, 3), "Subsection")
                              [] k = 3 -> Or(headingText, "Item")]

\* extractFragment is called for heading i of a page
ExtractFragment ==
  /\ call = NoCall
  /\ \E pg \in HierarchyPages : \E i \in 1..Len(pg.headings) :
       call' = [op |-> "extractFragment", input |-> [page |-> pg, i |-> i],
                output |-> hierarchyLevels(pg, i)]
  /\ UNCHANGED restVars

HierarchyInit == Init /\ scen = Tree /\ concurrency = 1

HierarchySpec == HierarchyInit /\ [][ExtractFragment]_vars

\* the nearest heading of a level before heading i (0: none)
NearestBefore(hs, i, level) ==
  LET before == {j \in 1..(i - 1) : hs[j].level = level}
  IN IF before = {} THEN 0 ELSE CHOOSE j \in before : \A k \in before : k <= j

\* C22: on a page whose headings all have a text, the fragment of a level-2..4
\* heading carries its own text at its level and, at each shallower level, the
\* text of the nearest preceding heading of that level (when there is one).
C22_HierarchyCorrectness ==
  (call.op = "extractFragment" /\
   \A j \in 1..Len(call.input.page.headings) : call.input.page.headings[j].text # "") =>
    LET hs == call.input.page.headings
        i == call.input.i
    IN hs[i].level >= 2 =>
         /\ call.output[hs[i].level - 1] = hs[i].text
         /\ \A l \in 1..(hs[i].level - 1) :
              NearestBefore(hs, i, l) # 0 =>
                call.output[l - 1] = hs[NearestBefore(hs, i, l)].text

(***************************************************************************)
(* extractFragments as a function of the page's DOM: which headings and    *)
(* which standalone elements yield a fragment, and with which id.  A text  *)
(* is a sequence of words; $content is a sequence of elements' texts.      *)
(***************************************************************************)
MaxElems == 1

standaloneSelectors ==
  <<".alert", ".warning-box", ".info-panel", "[role=alert]", ".checklist", ".step-list">>

\* a heading of $main: its level, its text, the elements nextUntil finds after
\* it, and the non-heading children of its parent when that is a div, section
\* or article
DomHeadings ==
  {[level |-> l, text |-> t, own |-> o, siblings |-> sb] :
     l \in {1, 2}, t \in {"Carer Payment", "Eligibility"},
     o \in {<<>>, <<"rules">>}, sb \in {<<>>, <<"intro">>}}

\* an element of $main and the standalone selectors it matches
DomElems ==
  {[text |-> "notice", matches |-> m] :
     m \in {{".alert"}, {"[role=alert]"}, {".alert", "[role=alert]"}, {".checklist"}}}

DomPages ==
  {[headings |-> hs, elems |-> es] :
     hs \in UNION {[1..n -> DomHeadings] : n \in 0..MaxHeadings},
     es \in UNION {[1..n -> DomElems] : n \in 0..MaxElems}}

\* $content of a heading: nextUntil(...), or the siblings within the container
\* when that is empty
contentOf(h) == IF h.own = <<>> THEN h.siblings ELSE h.own

\* if ($content.length > 0 || $heading.is('h1'))
yieldsFragment(h) == Len(contentOf(h)) > 0 \/ h.level = 1

\* the heading fragments, in document order
headingFragments(url, hs) ==
  LET idx == SelectSeq([i \in 1..Len(hs) |-> i], LAMBDA i : yieldsFragment(hs[i]))
  IN [k \in 1..Len(idx) |->
        [id |-> md5(UrlText(url) \o <<hs[idx[k]].text>> \o contentOf(hs[idx[k]])),
         kind |-> "heading"]]

\* for (const selector of standaloneSelectors) for (const elem of
\* $main.find(selector)): one fragment for every selector an element matches
standaloneFragments(url, es) ==
  LET n == Len(es)
      pairs == [k \in 1..(Len(standaloneSelectors) * n) |->
                  [sel |-> ((k - 1) \div n) + 1, elem |-> ((k - 1) % n) + 1]]
      found == SelectSeq(pairs,
                 LAMBDA q : standaloneSelectors[q.sel] \in es[q.elem].matches)
  IN [k \in 1..Len(found) |->
        [id |-> md5(UrlText(url) \o <<es[found[k].elem].text>>), kind |-> "standalone"]]

\* extractFragments($, url, page)
pageFragments(url, dom) ==
  headingFragments(url, dom.headings) \o standaloneFragments(url, dom.elems)

ExtractFragments ==
  /\ call = NoCall
  /\ \E dom \in DomPages :
       call' = [op |-> "extractFragments", input |-> dom,
                output |-> pageFragments(A("/c1"), dom)]
  /\ UNCHANGED restVars

ExtractInit == Init /\ scen = Tree /\ concurrency = 1

ExtractSpec == ExtractInit /\ [][ExtractFragments]_vars

\* C23: a page yields one fragment for each heading with content (an H1 also
\* without), one fragment for each standalone element, and the ids of its
\* fragments are pairwise distinct.
C23_CountAndDistinctIds ==
  call.op = "extractFragments" =>
    LET hs == call.input.headings
        out == call.output
    IN /\ Len(out) = Cardinality({i \in 1..Len(hs) : yieldsFragment(hs[i])})
                     + Len(call.input.elems)
       /\ \A i, j \in 1..Len(out) : out[i].id = out[j].id => i = j

(***************************************************************************)
(* calculateContentHash and the fragment id, character by character: a     *)
(* string is a sequence of characters, + is concatenation, and a hash is   *)
(* taken as one-to-one on the string it digests.                           *)
(***************************************************************************)
MaxText == 2
MaxPath == 2
MaxHeadingText == 1

Chars == {"a", "A", "-", " "}

Strings(alphabet, n) == UNION {[1..k -> alphabet] : k \in 0..n}

\* String.prototype.trim
trim(str) ==
  LET ink == {i \in 1..Len(str) : str[i] # " "}
  IN IF ink = {} THEN <<>>
     ELSE SubSeq(str, CHOOSE i \in ink : \A j \in ink : i <= j,
                      CHOOSE i \in ink : \A j \in ink : j <= i)

\* .toLowerCase()
toLowerCase(str) == [i \in 1..Len(str) |-> IF str[i] = "A" THEN "a" ELSE str[i]]

\* .replace(/[^\w\s]/g, ' ')
punctuationToSpace(str) == [i \in 1..Len(str) |-> IF str[i] = "-" THEN " " ELSE str[i]]

\* .replace(/\s+/g, ' ')
collapseSpaces(str) ==
  LET keep == SelectSeq([i \in 1..Len(str) |-> i],
                        LAMBDA i : str[i] # " " \/ i = 1 \/ str[i - 1] # " ")
  IN [k \in 1..Len(keep) |-> str[keep[k]]]

\* the normalisation inside calculateContentHash
normalized(text) == trim(collapseSpaces(punctuationToSpace(toLowerCase(text))))

Null == <<"null">>

sha256(str) == <<"sha256">> \o str

calculateContentHash(text) ==
  IF text = <<>> \/ trim(text) = <<>> THEN Null
  ELSE IF normalized(text) = <<>> THEN Null
  ELSE sha256(normalized(text))

\* the page URLs: https://my.gov.au/ followed by a path
PageUrls == {<<"https://my.gov.au/">> \o q : q \in Strings({"a", "-"}, MaxPath)}

\* $heading.text().trim() and $content.text().trim()
HeadingTexts == {trim(t) : t \in Strings({"a", "-"}, MaxHeadingText)}
ContentTexts == {trim(t) : t \in Strings(Chars, MaxText)}

\* the id and the content_hash extractFragment gives a fragment
fragmentIdentity(url, headingText, contentText) ==
  [id |-> md5(url \o headingText \o contentText),
   content_hash |-> calculateContentHash(contentText)]

\* extractFragment is called for a heading of one page and for a heading of
\* another page
ExtractTwo ==
  /\ call = NoCall
  /\ \E u1, u2 \in PageUrls : \E h1, h2 \in HeadingTexts : \E c1, c2 \in ContentTexts :
       /\ u1 # u2
       /\ call' = [op |-> "extractTwo",
                   input |-> <<[url |-> u1, headingText |-> h1, contentText |-> c1],
                               [url |-> u2, headingText |-> h2, contentText |-> c2]>>,
                   output |-> <<fragmentIdentity(u1, h1, c1), fragmentIdentity(u2, h2, c2)>>]
  /\ UNCHANGED restVars

HashInit == Init /\ scen = Tree /\ concurrency = 1

HashSpec == HashInit /\ [][ExtractTwo]_vars

\* the content text after lower-casing, punctuation to space, collapsing of
\* whitespace and trimming, computed character by character
Normalised(text) ==
  LET low == [i \in 1..Len(text) |->
                CASE text[i] = "A" -> "a" [] text[i] = "-" -> " " [] OTHER -> text[i]]
      ink == {i \in 1..Len(low) : low[i] # " "}
      keep == SelectSeq([i \in 1..Len(low) |-> i],
                LAMBDA i : /\ \E j \in ink : j <= i
                           /\ \E j \in ink : i <= j
                           /\ (low[i] # " " \/ low[i - 1] # " "))
  IN [k \in 1..Len(keep) |-> low[keep[k]]]

\* C24: two fragments of different pages whose content texts are the same
\* after normalisation have the same content_hash and different ids; the
\* content_hash is null exactly when the normalised content text is empty.
C24_ContentHashDedup ==
  call.op = "extractTwo" =>
    /\ \A k \in 1..2 :
         (call.output[k].content_hash = Null) <=> (Normalised(call.input[k].contentText) = <<>>)
    /\ Normalised(call.input[1].contentText) = Normalised(call.input[2].contentText) =>
         /\ call.output[1].content_hash = call.output[2].content_hash
         /\ call.output[1].id # call.output[2].id

\* C25: the fragment collection never holds two documents with one id, and a
\* batch that is written again document by document after its import threw
\* (whatever part of it the import had applied) leaves the collection as one
\* write of the batch would.
C25_IdempotentRedelivery ==
  /\ [](\A d1, d2 \in fragStore : d1.id = d2.id => d1 = d2)
  /\ [][(/\ Len(writes') = Len(writes) + 1
         /\ writes'[Len(writes')].coll = "content_fragments"
         /\ writes'[Len(writes')].individually = writes'[Len(writes')].size
         /\ writes'[Len(writes')].size > 0
         /\ faults' = faults + 1)
        => fragStore' = UpsertAll(fragStore, Batch(fragments, batchAt))]_vars

\* a batch of two or more fragments, one of them stored by an earlier run, was
\* written again document by document after its import threw
C25_Witness ==
  \E i \in 1..Len(writes) :
    /\ writes[i].coll = "content_fragments"
    /\ writes[i].failed
    /\ writes[i].individually = writes[i].size
    /\ writes[i].size >= 2
    /\ faults = 1
    /\ \A k \in 1..Len(fragments) : fragments[k] \in fragStore
    /\ \E k \in 1..Len(fragments) : \E d \in PrevFragments : d.id = fragments[k].id

\* C26: a crawl call that got past its guard (and so every page fetch) has a
\* depth of at most maxDepth; a call at depth maxDepth queues no child; the
\* sitemap calls and the start call have depth 0 and a child has its parent's
\* depth plus one.
C26_DepthBound ==
  \A t \in 1..Len(tasks) :
    /\ tasks[t].pc \notin {"queued", "resolved", "rejected"} => tasks[t].depth <= scen.maxDepth
    /\ tasks[t].parent = 0 => tasks[t].depth = 0
    /\ tasks[t].parent # 0 =>
         /\ tasks[t].depth = tasks[tasks[t].parent].depth + 1
         /\ tasks[tasks[t].parent].depth < scen.maxDepth

\* a page was fetched at depth maxDepth, its call has resolved and has no child
C26_Witness ==
  \E t \in 1..Len(tasks) :
    /\ tasks[t].depth = scen.maxDepth
    /\ tasks[t].pc = "resolved"
    /\ <<tasks[t].url, TRUE>> \in recorded
    /\ \A c \in 1..Len(tasks) : tasks[c].url = tasks[t].url => c = t
    /\ \A c \in 1..Len(tasks) : tasks[c].parent # t

\* the calls queued by call t
ChildrenOf(t) == {c \in 1..Len(tasks) : tasks[c].parent = t}

\* C27: every child URL a crawl call queues has the origin of the page it was
\* found on, is no binary document, has no fragment part and matches no
\* exclusion pattern; the exclusions are applied before the links are ranked
\* and cut, so a call queues min(maxLinksPerPage, number of links that pass the
\* filter) children.
C27_LinkFiltering ==
  \A t \in {tasks[c].parent : c \in 1..Len(tasks)} \ {0} :
    LET page == tasks[t].url
        links == LinksOf(scen, page)
        passing == {i \in 1..Len(links) :
                      /\ origin(links[i].href) = origin(page)
                      /\ ~BinaryDocument(links[i].href)
                      /\ links[i].href.hash = ""
                      /\ links[i].href.path \notin scen.exclude}
    IN /\ \A c \in ChildrenOf(t) : \E i \in passing : links[i].href = tasks[c].url
       /\ Cardinality(ChildrenOf(t)) = Min(scen.maxLinksPerPage, Cardinality(passing))

\* the start page, whose highest-scoring links are a binary document, a link to
\* another origin, a fragment link and an excluded link, has queued its children
C27_Witness ==
  /\ scen = Tree
  /\ startCrawl # 0
  /\ Cardinality(ChildrenOf(startCrawl)) = 2
  /\ \E i \in 1..Len(TreeLinks("/")) : BinaryDocument(TreeLinks("/")[i].href)
  /\ \E i \in 1..Len(TreeLinks("/")) : TreeLinks("/")[i].href.path \in scen.exclude

\* C28: a call queues at most maxLinksPerPage children, and they are the links
\* that pass the filter ranked by the number of keywords in their anchor text,
\* highest first and equal scores in document order: the k-th child is the
\* passing link that has k - 1 passing links before it in that ranking.  (The
\* children of a call are queued in one step and do not change afterwards: the
\* property is stated where the call has just queued them.)
C28_TopLinks ==
  \A t \in {p \in {tasks[c].parent : c \in 1..Len(tasks)} \ {0} : tasks[p].pc = "close"} :
    \A links \in {LinksOf(scen, tasks[t].url)} :
    \A hits \in {[i \in 1..Len(links) |-> scoreLinkRelevance(links[i].text)]} :
    \A passing \in {{i \in 1..Len(links) : LinkKept(tasks[t].url, links[i])}} :
    \A ahead \in {[i \in passing |->
                     Cardinality({j \in passing :
                                    hits[j] > hits[i] \/ (hits[j] = hits[i] /\ j < i)})]} :
    \A children \in {ChildrenOf(t)} :
    \A first \in {CHOOSE c \in children : \A d \in children : c <= d} :
      /\ Cardinality(children) <= scen.maxLinksPerPage
      /\ children = first..(first + Cardinality(children) - 1)
      /\ \A c \in children :
           \E i \in passing : ahead[i] = c - first /\ tasks[c].url = links[i].href
      /\ \A i \in passing :
           ahead[i] < scen.maxLinksPerPage => \E c \in children : c - first = ahead[i]

\* the start page of the tree site, where the link with a keyword comes after
\* one without and a third passing link is cut, has queued its children
C28_Witness ==
  /\ scen = Tree
  /\ startCrawl # 0
  /\ tasks[startCrawl].pc = "close"
  /\ ChildrenOf(startCrawl) # {}
  /\ \E c \in ChildrenOf(startCrawl) : tasks[c].url = A("/c1") /\ c + 1 \in ChildrenOf(startCrawl)
  /\ \A c \in ChildrenOf(startCrawl) : tasks[c].url # A("/c3")

\* C29: the sitemap URLs are crawled at depth 0 through the pool, and the call
\* for the start URL is made only when every one of these calls has resolved;
\* when the sitemap yields no URL the run calls the start URL at once.
C29_SitemapFirst ==
  /\ [](/\ \A t \in sitemapCrawls :
             tasks[t].depth = 0 /\ tasks[t].pooled /\ tasks[t].parent = 0
        /\ rpc = "sitemapWait" => startCrawl = 0
        /\ startCrawl # 0 => \A t \in sitemapCrawls : tasks[t].pc = "resolved")
  /\ [][(rpc = "sitemap" /\ rpc' # "sitemap") =>
          IF sitemapCrawls' = {}
            THEN rpc' = "startWait" /\ startCrawl' # 0
            ELSE rpc' = "sitemapWait" /\ startCrawl' = 0]_vars

\* the start URL has been called after the sitemap call resolved, while a child
\* queued by the sitemap call is still waiting in the pool
C29_Witness ==
  /\ startCrawl # 0
  /\ sitemapCrawls # {}
  /\ \E c \in 1..Len(tasks) : tasks[c].parent \in sitemapCrawls /\ tasks[c].pc = "queued"

\* C30: every fragment of the buffer lies in a contiguous block that holds the
\* fragments of one fetch of its page: the heading fragments in the document
\* order of the page's headings, then the standalone fragments in the order of
\* the page's standalone elements.
C30_DocumentOrder ==
  \A i \in 1..Len(fragments) :
    \A dom \in {Dom(baseUrl(fragments[i].url).path)} :
    \A nh \in {Len(dom.headings)} :
    \A n \in {Len(dom.headings) + Len(dom.standalone)} :
      \E s \in (i - n + 1)..i :
        /\ s >= 1
        /\ s + n - 1 <= Len(fragments)
        /\ \A k \in 1..nh :
             /\ fragments[s + k - 1].page_url = baseUrl(fragments[i].url)
             /\ fragments[s + k - 1].url.hash = dom.headings[k].text
        /\ \A k \in 1..(n - nh) :
             /\ fragments[s + nh + k - 1].page_url = NoUrl
             /\ baseUrl(fragments[s + nh + k - 1].url) = baseUrl(fragments[i].url)
             /\ fragments[s + nh + k - 1].id =
                  md5(UrlText(baseUrl(fragments[i].url)) \o <<dom.standalone[k]>>)

\* a run with two pool slots has buffered the two heading fragments of one page,
\* the heading fragment of another and a standalone fragment
C30_Witness ==
  /\ \E i \in 1..Len(fragments) : fragments[i].url.hash = "How to apply"
  /\ \E i \in 1..Len(fragments) : fragments[i].page_url = NoUrl
  /\ \E i \in 1..Len(fragments) : fragments[i].page_url = A("/c1")
  /\ concurrency = 2

(***************************************************************************)
(* Errors during extraction.  extractFragment, enrichWithTaxonomy and       *)
(* extractStandaloneFragment may throw; extractFragments wraps the work on  *)
(* a heading and the work on a standalone element in a try of its own, and  *)
(* the whole body in an outer try.  A loop carries the fragments pushed so  *)
(* far and whether an error is propagating.                                 *)
(***************************************************************************)
\* the headings of the pages on which extraction faults are explored
FaultHeadings ==
  {[level |-> 1, text |-> "Carer Payment", own |-> <<>>, siblings |-> <<>>],
   [level |-> 2, text |-> "Eligibility", own |-> <<"rules">>, siblings |-> <<>>],
   [level |-> 2, text |-> "Contact", own |-> <<>>, siblings |-> <<>>]}

FaultPages ==
  {[headings |-> hs, elems |-> es] :
     hs \in UNION {[1..n -> FaultHeadings] : n \in 0..MaxHeadings},
     es \in UNION {[1..n -> DomElems] : n \in 0..MaxElems}}

\* the (selector, element) pairs the standalone loop visits
standalonePairs(es) ==
  {<<sel, e>> \in (1..Len(standaloneSelectors)) \X (1..Len(es)) :
     standaloneSelectors[sel] \in es[e].matches}

\* the inputs on page dom: the page, the headings on which extractFragment or
\* enrichWithTaxonomy throws, and the standalone visits on which
\* extractStandaloneFragment or enrichWithTaxonomy throws
FaultInputs(dom) ==
  {[dom |-> dom, hfail |-> hf, sfail |-> sf] :
     hf \in SUBSET (1..Len(dom.headings)), sf \in SUBSET standalonePairs(dom.elems)}

\* await extractFragment({...}); await enrichWithTaxonomy(fragment): the final
\* fragment, or the error thrown
processHeading(url, h, throws) ==
  IF throws THEN [threw |-> TRUE]
  ELSE [threw |-> FALSE,
        fragment |-> [id |-> md5(UrlText(url) \o <<h.text>> \o contentOf(h)),
                      kind |-> "heading"]]

\* this.extractStandaloneFragment($elem, url, breadcrumbs); await
\* enrichWithTaxonomy(fragment)
processStandalone(url, elem, throws) ==
  IF throws THEN [threw |-> TRUE]
  ELSE [threw |-> FALSE,
        fragment |-> [id |-> md5(UrlText(url) \o <<elem.text>>), kind |-> "standalone"]]

\* a try around the work on one heading that does not catch
tryFragmentRethrow(res, acc) ==
  IF res.threw THEN [acc EXCEPT !.threw = TRUE]
  ELSE [acc EXCEPT !.fragments = Append(@, res.fragment)]

\* try { ... fragments.push(finalFragment) } catch (fragmentError) { log }
tryFragment(res, acc) ==
  IF res.threw THEN acc
  ELSE [acc EXCEPT !.fragments = Append(@, res.fragment)]

\* try { ... fragments.push({...}) } catch (standaloneError) { log }
tryStandalone(res, acc) ==
  IF res.threw THEN acc
  ELSE [acc EXCEPT !.fragments = Append(@, res.fragment)]

\* for (let i = 0; i < headings.length; i++): an error that propagates ends
\* the loop
RECURSIVE headingLoop(_, _, _, _, _)
headingLoop(url, hs, i, hfail, acc) ==
  IF acc.threw \/ i > Len(hs) THEN acc
  ELSE headingLoop(url, hs, i + 1, hfail,
         IF yieldsFragment(hs[i])
           THEN tryFragment(processHeading(url, hs[i], i \in hfail), acc)
           ELSE acc)

\* for (const elem of elements) within one selector
RECURSIVE elementLoop(_, _, _, _, _, _)
elementLoop(url, es, sel, e, sfail, acc) ==
  IF acc.threw \/ e > Len(es) THEN acc
  ELSE elementLoop(url, es, sel, e + 1, sfail,
         IF standaloneSelectors[sel] \in es[e].matches
           THEN tryStandalone(processStandalone(url, es[e], <<sel, e>> \in sfail), acc)
           ELSE acc)

\* try { const elements = ...; for ... } catch (selectorError) { log }
trySelector(acc) == [acc EXCEPT !.threw = FALSE]

\* for (const selector of standaloneSelectors)
RECURSIVE selectorLoop(_, _, _, _, _)
selectorLoop(url, es, sel, sfail, acc) ==
  IF acc.threw \/ sel > Len(standaloneSelectors) THEN acc
  ELSE selectorLoop(url, es, sel + 1, sfail,
         trySelector(elementLoop(url, es, sel, 1, sfail, acc)))

\* } catch (error) { log; return fragments }
tryPage(acc) == [acc EXCEPT !.threw = FALSE]

\* extractFragments($, url, page) when some of its calls throw
extractFragmentsFaulty(url, in) ==
  LET start == [fragments |-> <<>>, threw |-> FALSE]
      afterHeadings == headingLoop(url, in.dom.headings, 1, in.hfail, start)
  IN tryPage(selectorLoop(url, in.dom.elems, 1, in.sfail, afterHeadings))

ExtractFragmentsFaulty ==
  /\ call = NoCall
  /\ \E dom \in FaultPages : \E in \in FaultInputs(dom) :
       call' = [op |-> "extractFragmentsFaulty", input |-> in,
                output |-> extractFragmentsFaulty(A("/c1"), in)]
  /\ UNCHANGED restVars

FaultInit == Init /\ scen = Tree /\ concurrency = 1

FaultSpec == FaultInit /\ [][ExtractFragmentsFaulty]_vars

\* the page without the headings and the selector matches whose work throws
Surviving(in) ==
  LET hs == in.dom.headings
      es == in.dom.elems
      keep == SelectSeq([i \in 1..Len(hs) |-> i], LAMBDA i : i \notin in.hfail)
  IN [headings |-> [k \in 1..Len(keep) |-> hs[keep[k]]],
      elems |-> [e \in 1..Len(es) |->
                   [es[e] EXCEPT !.matches =
                      {m \in @ : \A sel \in 1..Len(standaloneSelectors) :
                                   standaloneSelectors[sel] = m => <<sel, e>> \notin in.sfail}]]]

\* C31: whatever headings and standalone elements throw during extraction or
\* enrichment, extractFragments does not throw and returns the fragments of all
\* the others, in order.
C31_ExtractionIsolation ==
  call.op = "extractFragmentsFaulty" =>
    /\ ~call.output.threw
    /\ call.output.fragments = pageFragments(A("/c1"), Surviving(call.input))

\* C31 witness: the work on the first of three fragment-yielding headings and on
\* one of two standalone visits threw, and three fragments were returned
C31_Witness ==
  /\ call.op = "extractFragmentsFaulty"
  /\ Len(call.input.dom.headings) = 3
  /\ \A i \in 1..3 : yieldsFragment(call.input.dom.headings[i])
  /\ call.input.hfail = {1}
  /\ Cardinality(standalonePairs(call.input.dom.elems)) = 2
  /\ Cardinality(call.input.sfail) = 1
  /\ Len(call.output.fragments) = 3

\* C32: when indexing starts, every fragment that the extraction of a
\* successfully fetched page returned is in the buffer exactly once, and no
\* fragment is in the buffer twice.
C32_NoLostOrDuplicatedAppends ==
  rpc = "index" =>
    /\ \A u \in {r[1] : r \in {q \in recorded : q[2]}} :
         \A frags \in {extractFragments(u, CRAWL_VERSION)} :
           \A k \in 1..Len(frags) :
             Cardinality({i \in 1..Len(fragments) : fragments[i] = frags[k]}) = 1
    /\ \A i, j \in 1..Len(fragments) : fragments[i] = fragments[j] => i = j

\* the fragment_count values of the first n documents, added up
RECURSIVE CountsUpTo(_, _)
CountsUpTo(docs, n) == IF n = 0 THEN 0 ELSE docs[n].fragment_count + CountsUpTo(docs, n - 1)

\* C33: buildPageDocs emits one document for each canonical URL of the buffer
\* and no other; each document's fragment_count is the length of its
\* fragment_ids, which holds no id twice; the counts add up to the size of the
\* buffer.
C33_PagePartition ==
  rpc = "resolved" =>
    \A docs \in {buildPageDocs(fragments)} :
      /\ {docs[k].url : k \in 1..Len(docs)} =
           {baseUrl(fragments[i].url) : i \in 1..Len(fragments)}
      /\ \A k, m \in 1..Len(docs) : docs[k].url = docs[m].url => k = m
      /\ \A k \in 1..Len(docs) :
           /\ docs[k].fragment_count = Len(docs[k].fragment_ids)
           /\ \A i, j \in 1..Len(docs[k].fragment_ids) :
                docs[k].fragment_ids[i] = docs[k].fragment_ids[j] => i = j
      /\ CountsUpTo(docs, Len(docs)) = Len(fragments)

\* C34: every fragment this run has written to the store carries the canonical
\* URL of its page as page_url.
C34_PageUrlOnEveryFragment ==
  \A d \in fragStore :
    d.crawl_version = CRAWL_VERSION => d.page_url = baseUrl(d.url)

\* C35: while the run has no target host no delete has been issued, and the
\* prune step of such a run leaves both collections and the list of delete
\* calls as they are.
C35_PruneSkippedWithoutTarget ==
  /\ [](targetHost = <<>> => deletes = <<>>)
  /\ [][(rpc = "prune" /\ targetHost = <<>>)
          => (/\ deletes' = deletes
              /\ fragStore' = fragStore
              /\ pageStore' = pageStore
              /\ rpc' = "finally")]_vars

\* C35 witness: a run without a target host has written its fragments and has
\* gone through pruneStaleDocs without an error
C35_Witness ==
  /\ targetHost = <<>>
  /\ rpc = "finally"
  /\ ~runErr
  /\ \E d \in fragStore : d.crawl_version = CRAWL_VERSION

\* C36: every URL navigated to is recorded either as a success or as a
\* failure and not as both, and the buffer holds no fragment of a page
\* recorded as failed.
C36_OutcomeAccounting ==
  /\ \A u \in DOMAIN fetches : (<<u, TRUE>> \in recorded) # (<<u, FALSE>> \in recorded)
  /\ \A i \in 1..Len(fragments) : <<baseUrl(fragments[i].url), FALSE>> \notin recorded

(***************************************************************************)
(* The loop of indexFragments over a buffer of several batches.  The       *)
(* documents of the buffer are numbered by their position; a turn of the   *)
(* loop submits one slice, and the request of a turn succeeds or throws.   *)
(***************************************************************************)
MaxBuffer == 250

\* indexFragments() is called with a buffer of n fragments
BeginIndexFragments ==
  /\ call = NoCall
  /\ \E n \in 0..MaxBuffer :
       call' = [op |-> "indexFragments", input |-> [k \in 1..n |-> k], i |-> 0,
                submitted |-> <<>>, done |-> FALSE]
  /\ UNCHANGED restVars

\* for (let i = 0; i < this.fragments.length; i += 100): one turn; the catch
\* block of a turn is inside the loop, which goes on after it
ImportBatch ==
  /\ call.op = "indexFragments"
  /\ ~call.done
  /\ IF call.i < Len(call.input)
     THEN \E thrown \in BOOLEAN :
            call' = [call EXCEPT
                       !.submitted = Append(@, [docs |-> Batch(call.input, call.i),
                                                thrown |-> thrown]),
                       !.i = @ + BatchSize]
     ELSE call' = [call EXCEPT !.done = TRUE]
  /\ UNCHANGED restVars

BatchInit == Init /\ scen = Tree /\ concurrency = 1

BatchSpec == BatchInit /\ [][BeginIndexFragments \/ ImportBatch]_vars

\* the documents of the first n submitted batches, in the order submitted
RECURSIVE SubmittedUpTo(_, _)
SubmittedUpTo(submitted, n) ==
  IF n = 0 THEN <<>> ELSE SubmittedUpTo(submitted, n - 1) \o submitted[n].docs

\* C37: when indexFragments has finished, the batches it submitted hold at most
\* 100 documents each and, one after the other, make up the buffer: every
\* fragment is in exactly one batch, also after a batch whose import threw.
C37_BatchCoverage ==
  (call.op = "indexFragments" /\ call.done) =>
    /\ \A k \in 1..Len(call.submitted) : Len(call.submitted[k].docs) <= 100
    /\ SubmittedUpTo(call.submitted, Len(call.submitted)) = call.input

\* C37 witness: a buffer of three batches, the last one partial, whose first
\* import threw
C37_Witness ==
  /\ call.op = "indexFragments"
  /\ call.done
  /\ Len(call.submitted) = 3
  /\ call.submitted[1].thrown
  /\ Len(call.submitted[3].docs) < 100

\* the navigations to the URLs of S, added up
RECURSIVE FetchesOf(_)
FetchesOf(S) ==
  IF S = {} THEN 0
  ELSE LET u == CHOOSE x \in S : TRUE IN fetches[u] + FetchesOf(S \ {u})

\* C38: the pages fetched are no more than the distinct URLs handed to crawl;
\* waitedCount only grows and stays within the length of pendingCrawls; and a
\* run that does not end with an error comes to start indexing.
C38_CrawlTermination ==
  /\ [](FetchesOf(DOMAIN fetches) <= Cardinality({tasks[t].url : t \in 1..Len(tasks)}))
  /\ [](waitedCount <= Len(pendingCrawls))
  /\ [][waitedCount' >= waitedCount]_vars
  /\ ([](rpc # "rejected") => <>(rpc = "index"))

\* C39: a crawl call that has resolved has closed every tab it opened; run()
\* does not end with the browser open; and once the browser is closed no crawl
\* call that is still running holds an open tab.
C39_ResourceRelease ==
  /\ \A t \in 1..Len(tasks) : tasks[t].pc = "resolved" => tasks[t].tabs = 0
  /\ browser = "open" => rpc \notin {"resolved", "rejected", "done"}
  /\ browser = "closed" => \A t \in 1..Len(tasks) : ~Settled(t) => tasks[t].tabs = 0

====
